---- MODULE Spec2Model ----
(***************************************************************************)
(* Model of finmod_copilot.core.dependency_graph.DependencyGraph: the      *)
(* construction of the cell dependency graph by build() (node pass, edge   *)
(* pass, cycle check, level assignment) and the queries answered from it.  *)
(*                                                                         *)
(* A full address "Sheet!ColRow" is the triple <<sheet, col, row>>.  A     *)
(* formula is the sequence of its lexical tokens; a cell without formula   *)
(* (formula None or "") carries the empty sequence, which is what the      *)
(* truth test `if node.formula` distinguishes.                             *)
(***************************************************************************)
EXTENDS Integers, Sequences, FiniteSets, TLC

\* ------------------------------------------------------------------ bounds
\* Largest number of cell references in one formula of the explored listings.
MaxRefs == 3
\* Largest number of nested function calls in a text handed to the parser.
MaxCalls == 3

\* --------------------------------------------------------------- constants
\* build() reports cycles[:5].
MaxCycles == 5

\* The explored workbooks: cells A1, B1, C1 of Sheet1, each absent, literal
\* or formula; Sheet2 is referenced but never listed.
ColumnNames == <<"A", "B", "C">>
Columns == {ColumnNames[i] : i \in 1..Len(ColumnNames)}
TheSheet == "Sheet1"
OtherSheet == "Sheet2"
TheRow == 1

\* ------------------------------------------------------------------ tokens
\* One lexical token of a formula text.  kind "ref" is a match of
\* _cell_ref_pattern: optional sheet prefix (sheet = "" when absent),
\* optional $ markers, column letters, row digits.
Tok(kind, sheet, absCol, col, absRow, row) ==
    [kind |-> kind, sheet |-> sheet, absCol |-> absCol, col |-> col,
     absRow |-> absRow, row |-> row]
EqTok == Tok("eq", "", FALSE, "", FALSE, 0)
PlusTok == Tok("op", "", FALSE, "+", FALSE, 0)
NumTok == Tok("num", "", FALSE, "", FALSE, 5)
TimesTok == Tok("op", "", FALSE, "*", FALSE, 0)
TwoTok == Tok("num", "", FALSE, "", FALSE, 2)
RefTok(sheet, col, row) == Tok("ref", sheet, FALSE, col, FALSE, row)
\* What the reference pattern never matches: the colon of a range, a closing
\* parenthesis, a function name with its opening parenthesis, a defined name
\* (letters without digits).
ColonTok == Tok("colon", "", FALSE, "", FALSE, 0)
RParenTok == Tok("rparen", "", FALSE, "", FALSE, 0)
FnTok(name) == [kind |-> "fn", name |-> name]
NameTok(name) == [kind |-> "name", name |-> name]

\* "=" r1 "+" r2 "+" ... for a sequence of reference tokens; "=5" when empty.
RECURSIVE JoinPlus(_)
JoinPlus(refs) ==
    IF Len(refs) = 0 THEN <<>>
    ELSE IF Len(refs) = 1 THEN refs
    ELSE <<Head(refs), PlusTok>> \o JoinPlus(Tail(refs))
FormulaText(refs) ==
    IF Len(refs) = 0 THEN <<EqTok, NumTok>> ELSE <<EqTok>> \o JoinPlus(refs)

\* The references written in the explored formulas: A1, B1, C1 without
\* sheet prefix and Sheet2!A1; a formula holds at most MaxRefs of them, in
\* this order.
RefTokens ==
    [i \in 1..Len(ColumnNames) |-> RefTok("", ColumnNames[i], TheRow)]
    \o <<RefTok(OtherSheet, "A", TheRow)>>
RECURSIVE PickRefs(_, _)
PickRefs(S, i) ==
    IF i > Len(RefTokens) THEN <<>>
    ELSE (IF i \in S THEN <<RefTokens[i]>> ELSE <<>>) \o PickRefs(S, i + 1)
\* The formulas of the example listing: "=A1*2" and "=B1+5".
ExampleFormulaB == <<EqTok, RefTok("", "A", TheRow), TimesTok, TwoTok>>
ExampleFormulaC == <<EqTok, RefTok("", "B", TheRow), PlusTok, NumTok>>
Formulas ==
    {FormulaText(PickRefs(S, 1)) :
        S \in {T \in SUBSET (1..Len(RefTokens)) : Cardinality(T) <= MaxRefs}}
    \cup {ExampleFormulaB, ExampleFormulaC}
NoFormula == <<>>

\* ---------------------------------------------------------------- listings
\* CellInfo as far as build() reads it.
CellInfo(addr, value, formula) == [address |-> addr, value |-> value, formula |-> formula]
CellKeys == {<<TheSheet, c, TheRow>> : c \in Columns}
\* A literal cell (value 10, no formula) or a formula cell.
CellContents ==
    {[value |-> 10, formula |-> NoFormula]}
    \cup {[value |-> 0, formula |-> f] : f \in Formulas}
\* structure.sheets flattened: (sheet, col, row) -> CellInfo.
ListingOf(D, content) ==
    [k \in D |-> CellInfo(<<k[2], k[3]>>, content[k].value, content[k].formula)]

VARIABLES cells, named_ranges, nodes, graph, pc, idx, error,
          parser_input, parsed

vars == <<cells, named_ranges, nodes, graph, pc, idx, error, parser_input, parsed>>
\* What build() leaves alone: the text handed to FormulaParser.parse and
\* the list of its results.
parser_vars == <<parser_input, parsed>>

\* --------------------------------------------------------------- iteration
\* The order of structure.sheets.items() and of each sheet.cells.items():
\* the sheets in workbook order, the columns A to D within a sheet.
SheetNames == <<TheSheet, OtherSheet>>
SheetColumns == ColumnNames \o <<"D">>
ListingOrder ==
    [i \in 1..(Len(SheetNames) * Len(SheetColumns)) |->
        <<SheetNames[((i - 1) \div Len(SheetColumns)) + 1],
          SheetColumns[((i - 1) % Len(SheetColumns)) + 1], TheRow>>]
\* Insertion order of self.nodes: the order of the listing.
RECURSIVE KeySeq(_, _)
KeySeq(D, i) ==
    IF i > Len(ListingOrder) THEN <<>>
    ELSE (IF ListingOrder[i] \in D THEN <<ListingOrder[i]>> ELSE <<>>)
         \o KeySeq(D, i + 1)
NodeOrder == KeySeq(DOMAIN nodes, 1)

\* ---------------------------------------------------------------- CellNode
\* f"{sheet_name}!{cell_info.address}"
FullAddress(sheet_name, address) == <<sheet_name, address[1], address[2]>>
CellNode(sheet, addr, formula, value) ==
    [sheet_name |-> sheet, address |-> addr,
     full_address |-> FullAddress(sheet, addr),
     formula |-> formula, value |-> value,
     dependencies |-> {}, dependents |-> {}, level |-> 0]

\* ------------------------------------------------------ reference extraction
\* A sheet name as written between quotes, and sheet_name.strip("'").
Quoted(sheet_name) == "'" \o sheet_name \o "'"
StripQuotes(sheet_ref) ==
    IF \E i \in 1..Len(SheetNames) : sheet_ref = Quoted(SheetNames[i])
    THEN SheetNames[CHOOSE i \in 1..Len(SheetNames) : sheet_ref = Quoted(SheetNames[i])]
    ELSE sheet_ref
\* One regex match: sheet_ref or current_sheet, quotes stripped, col + row.
\* The $ markers lie outside the captured groups and the letters are kept
\* as written.
MatchAddressOnFirstSheet(tok, current_sheet) ==
    <<StripQuotes(IF tok.sheet # "" THEN tok.sheet ELSE TheSheet), tok.col, tok.row>>
MatchAddress(tok, current_sheet) ==
    <<StripQuotes(IF tok.sheet # "" THEN tok.sheet ELSE current_sheet),
      tok.col, tok.row>>
\* The positions of the pattern's matches in the formula.
RefPositions(formula) == {j \in 1..Len(formula) : formula[j].kind = "ref"}
\* `if range_name in formula`, for names that are whole words of the text.
MentionsName(formula, range_name) ==
    \E i \in 1..Len(formula) :
        formula[i].kind = "name" /\ formula[i].name = range_name
\* The body of the named-range loop is `pass`: a mentioned name adds no
\* address.
named_range_expanded(range_name) ==
    {named_ranges[range_name].address[1], named_ranges[range_name].address[2]}
named_range_dependencies(range_name) == {}
\* The cells strictly between the two boundary matches of a range.
CellsBetween(first, last) ==
    LET Index(col) == CHOOSE i \in 1..Len(SheetColumns) : SheetColumns[i] = col
    IN {<<first[1], SheetColumns[i], first[3]>> :
           i \in {j \in 1..Len(SheetColumns) : Index(first[2]) < j /\ j < Index(last[2])}}
extract_with_range_fan_out(formula, current_sheet) ==
    {MatchAddress(formula[i], current_sheet) : i \in RefPositions(formula)}
    \cup UNION {CellsBetween(MatchAddress(formula[i], current_sheet),
                             MatchAddress(formula[i + 2], current_sheet)) :
                   i \in {j \in RefPositions(formula) :
                             /\ j + 2 <= Len(formula)
                             /\ formula[j + 1].kind = "colon"}}
\* All matches of the formula; the closing loop over structure.named_ranges
\* adds nothing.
_extract_dependencies(formula, current_sheet) ==
    {MatchAddress(formula[i], current_sheet) : i \in RefPositions(formula)}
    \cup UNION {named_range_dependencies(range_name) :
                   range_name \in {n \in DOMAIN named_ranges : MentionsName(formula, n)}}

Init ==
    /\ \E D \in SUBSET CellKeys : \E content \in [D -> CellContents] :
          cells = ListingOf(D, content)
    /\ named_ranges = <<>>
    /\ nodes = <<>>
    /\ graph = [nodes |-> {}, edges |-> {}]
    /\ pc = "new"
    /\ idx = 1
    /\ error = {}
    /\ parser_input = NoFormula
    /\ parsed = <<>>

\* ------------------------------------------- reference spellings explored
\* A second family of listings: literal cells among Sheet1!A1, B1, C1 and
\* Sheet2!A1, and one formula cell, D1 of either sheet, whose formula adds
\* up one or two of the items below.
AbsTok(absCol, col, absRow) == Tok("ref", "", absCol, col, absRow, TheRow)
RangeItem(first, last) == <<FnTok("SUM"), first, ColonTok, last, RParenTok>>
\* A1, B1, C1, $A$1, A$1, $A1, Sheet2!A1, 'Sheet2'!A1, Sheet1!A1,
\* SUM(A1:C1), SUM($A$1:$C$1), SUM(Sheet2!A1:C1) and the defined name Rate.
RefItems ==
    << <<RefTok("", "A", TheRow)>>, <<RefTok("", "B", TheRow)>>,
       <<RefTok("", "C", TheRow)>>,
       <<AbsTok(TRUE, "A", TRUE)>>, <<AbsTok(FALSE, "A", TRUE)>>,
       <<AbsTok(TRUE, "A", FALSE)>>,
       <<RefTok(OtherSheet, "A", TheRow)>>,
       <<RefTok(Quoted(OtherSheet), "A", TheRow)>>,
       <<RefTok(TheSheet, "A", TheRow)>>,
       RangeItem(RefTok("", "A", TheRow), RefTok("", "C", TheRow)),
       RangeItem(AbsTok(TRUE, "A", TRUE), AbsTok(TRUE, "C", TRUE)),
       RangeItem(RefTok(OtherSheet, "A", TheRow), RefTok("", "C", TheRow)),
       <<NameTok("Rate")>> >>
RefFormulas ==
    {<<EqTok>> \o RefItems[i] : i \in 1..Len(RefItems)}
    \cup {<<EqTok>> \o RefItems[p[1]] \o <<PlusTok>> \o RefItems[p[2]] :
             p \in {q \in (1..Len(RefItems)) \X (1..Len(RefItems)) : q[1] < q[2]}}
LiteralKeys == CellKeys \cup {<<OtherSheet, "A", TheRow>>}
HolderKeys == {<<SheetNames[i], "D", TheRow>> : i \in 1..Len(SheetNames)}
\* NamedRange; the address "Sheet!$Col$Row:$Col$Row" is kept as the pair of
\* its boundary cells.
NamedRange(name, sheet_name, first, last) ==
    [name |-> name, sheet_name |-> sheet_name, address |-> <<first, last>>,
     scope |-> "workbook"]
\* structure.named_ranges: empty, Rate = Sheet1!$B$1, or Rate =
\* Sheet1!$A$1:$C$1.
NamedRangeMaps ==
    {<<>>,
     [n \in {"Rate"} |-> NamedRange(n, TheSheet, <<TheSheet, "B", TheRow>>,
                                    <<TheSheet, "B", TheRow>>)],
     [n \in {"Rate"} |-> NamedRange(n, TheSheet, <<TheSheet, "A", TheRow>>,
                                    <<TheSheet, "C", TheRow>>)]}

InitRefs ==
    /\ \E L \in SUBSET LiteralKeys : \E h \in HolderKeys : \E f \in RefFormulas :
          cells = ListingOf(L \cup {h},
                     [k \in L \cup {h} |->
                         IF k = h THEN [value |-> 0, formula |-> f]
                         ELSE [value |-> 10, formula |-> NoFormula]])
    /\ named_ranges \in NamedRangeMaps
    /\ nodes = <<>>
    /\ graph = [nodes |-> {}, edges |-> {}]
    /\ pc = "new"
    /\ idx = 1
    /\ error = {}
    /\ parser_input = NoFormula
    /\ parsed = <<>>

\* build(), first pass: one node per cell of the listing, keyed by its full
\* address, and the same keys as nodes of the graph.
FirstPass ==
    /\ pc = "new"
    /\ LET keys == {FullAddress(k[1], cells[k].address) : k \in DOMAIN cells}
       IN /\ nodes' = [a \in keys |->
                 LET k == CHOOSE c \in DOMAIN cells :
                              FullAddress(c[1], cells[c].address) = a
                 IN CellNode(k[1], cells[k].address, cells[k].formula, cells[k].value)]
          /\ graph' = [nodes |-> keys, edges |-> {}]
    /\ pc' = IF DOMAIN cells = {} THEN "check_cycles" ELSE "second_pass"
    /\ idx' = 1
    /\ UNCHANGED <<cells, named_ranges, error>>
    /\ UNCHANGED parser_vars

\* build(), `for dep in deps: if dep in self.nodes: self.graph.add_edge(dep,
\* full_address)`: add_edge also adds any endpoint the graph lacks.
EdgesAddedUnfiltered(deps, full_address) ==
    {<<dep, full_address>> : dep \in deps}
EdgesAdded(deps, full_address) ==
    {<<dep, full_address>> : dep \in deps \cap DOMAIN nodes}
add_edges_from(g, E) ==
    [nodes |-> g.nodes \cup {e[1] : e \in E} \cup {e[2] : e \in E},
     edges |-> g.edges \cup E]

\* build(), second pass, one iteration of `for full_address, node in
\* self.nodes.items()`: the node takes every extracted address as its
\* dependencies; an edge and a dependents entry are added only for the
\* addresses that are nodes.
SecondPassStep ==
    /\ pc = "second_pass"
    /\ LET full_address == NodeOrder[idx]
           node == nodes[full_address]
           deps == _extract_dependencies(node.formula, node.sheet_name)
       IN IF node.formula # NoFormula
          THEN /\ nodes' = [k \in DOMAIN nodes |->
                     LET n1 == IF k = full_address
                               THEN [nodes[k] EXCEPT !.dependencies = deps]
                               ELSE nodes[k]
                     IN IF k \in {e[1] : e \in EdgesAdded(deps, full_address)}
                        THEN [n1 EXCEPT !.dependents = @ \cup {full_address}]
                        ELSE n1]
               /\ graph' = add_edges_from(graph, EdgesAdded(deps, full_address))
          ELSE UNCHANGED <<nodes, graph>>
    /\ idx' = idx + 1
    /\ pc' = IF idx = Len(NodeOrder) THEN "check_cycles" ELSE "second_pass"
    /\ UNCHANGED <<cells, named_ranges, error>>
    /\ UNCHANGED parser_vars

\* ------------------------------------------------------------------ networkx
\* nx.is_directed_acyclic_graph: the graph can be peeled completely by
\* repeatedly removing the nodes without incoming edge.
RECURSIVE Peel(_, _)
Peel(N, E) ==
    LET src == {n \in N : ~ \E e \in E : e[2] = n /\ e[1] \in N}
    IN IF src = {} THEN N ELSE Peel(N \ src, E)
is_dag_ignoring_self_loops(g) ==
    Peel(g.nodes, {e \in g.edges : e[1] # e[2]}) = {}
is_directed_acyclic_graph(g) == Peel(g.nodes, g.edges) = {}

Rank(k) == CHOOSE i \in 1..Len(ListingOrder) : ListingOrder[i] = k
SeqRange(s) == {s[i] : i \in 1..Len(s)}

\* nx.simple_cycles: the elementary circuits of the graph, self-loops
\* included, each kept up to rotation by the node list that starts at its
\* least node.
RECURSIVE CyclesFrom(_, _, _)
CyclesFrom(g, path, s) ==
    LET last == path[Len(path)]
        closed == IF <<last, s>> \in g.edges THEN {path} ELSE {}
        nexts == {n \in g.nodes : /\ <<last, n>> \in g.edges
                                  /\ Rank(n) > Rank(s)
                                  /\ n \notin SeqRange(path)}
    IN closed \cup UNION {CyclesFrom(g, Append(path, n), s) : n \in nexts}
simple_cycles(g) == UNION {CyclesFrom(g, <<s>>, s) : s \in g.nodes}

Min2(a, b) == IF a < b THEN a ELSE b
SetMax(S) == CHOOSE x \in S : \A y \in S : y <= x

\* cycles[:5]: the first five of the list, in whatever order the library
\* lists the circuits.
CycleSamplesOneMore(cycles) ==
    {S \in SUBSET cycles : Cardinality(S) = Min2(MaxCycles + 1, Cardinality(cycles))}
CycleSamples(cycles) ==
    {S \in SUBSET cycles : Cardinality(S) = Min2(MaxCycles, Cardinality(cycles))}

\* build(), cycle check: raise ValueError carrying cycles[:5], or go on.
CheckCycles ==
    /\ pc = "check_cycles"
    /\ IF ~ is_directed_acyclic_graph(graph)
       THEN /\ error' \in CycleSamples(simple_cycles(graph))
            /\ pc' = "failed"
       ELSE /\ pc' = "calculate_levels"
            /\ UNCHANGED error
    /\ UNCHANGED <<cells, named_ranges, nodes, graph, idx>>
    /\ UNCHANGED parser_vars

\* nx.topological_sort: every order in which each edge goes forward; none
\* when the graph has a cycle.
RECURSIVE TopologicalSorts(_, _)
TopologicalSorts(N, E) ==
    IF N = {} THEN {<<>>}
    ELSE LET src == {n \in N : ~ \E e \in E : e[2] = n /\ e[1] \in N}
         IN UNION {{<<x>> \o o : o \in TopologicalSorts(N \ {x}, E)} : x \in src}

\* The level _calculate_levels gives a node, from the levels dictionary
\* built so far.
LevelOfNoIncrement(node, levels) ==
    IF node.dependencies = {} THEN 0
    ELSE SetMax({IF dep \in DOMAIN levels THEN levels[dep] ELSE 0 :
                    dep \in node.dependencies})
LevelOfMin(node, levels) ==
    IF node.dependencies = {} THEN 0
    ELSE (CHOOSE x \in {IF dep \in DOMAIN levels THEN levels[dep] ELSE 0 :
                            dep \in node.dependencies} :
             \A y \in {IF dep \in DOMAIN levels THEN levels[dep] ELSE 0 :
                            dep \in node.dependencies} : x <= y) + 1
LevelOf(node, levels) ==
    IF node.dependencies = {} THEN 0
    ELSE SetMax({IF dep \in DOMAIN levels THEN levels[dep] ELSE 0 :
                    dep \in node.dependencies}) + 1

\* The loop of _calculate_levels over topo_order, from position i on, with
\* the levels dictionary built so far.
RECURSIVE AssignLevels(_, _, _)
AssignLevels(topo_order, i, levels) ==
    IF i > Len(topo_order) THEN levels
    ELSE LET node_id == topo_order[i]
         IN AssignLevels(topo_order, i + 1,
                         levels @@ (node_id :> LevelOf(nodes[node_id], levels)))

\* build(), level assignment.  build() reaches it only with a graph that
\* passed the cycle check, so nx.topological_sort yields an order.
CalculateLevels ==
    /\ pc = "calculate_levels"
    /\ \E topo_order \in TopologicalSorts(graph.nodes, graph.edges) :
          LET levels == AssignLevels(topo_order, 1, <<>>)
          IN nodes' = [k \in DOMAIN nodes |-> [nodes[k] EXCEPT !.level = levels[k]]]
    /\ pc' = "done"
    /\ UNCHANGED <<cells, named_ranges, graph, idx, error>>
    /\ UNCHANGED parser_vars

\* ------------------------------------------------------------------- queries
get_dependencies(full_address) ==
    IF full_address \notin DOMAIN nodes THEN {} ELSE nodes[full_address].dependencies

get_dependents(full_address) ==
    IF full_address \notin DOMAIN nodes THEN {} ELSE nodes[full_address].dependents

\* Breadth-first search from the frontier along E, collecting what it meets.
RECURSIVE bfs(_, _, _)
bfs(E, frontier, seen) ==
    LET nxt == {e[2] : e \in {f \in E : f[1] \in frontier}} \ seen
    IN IF nxt = {} THEN seen ELSE bfs(E, nxt, seen \cup nxt)
Reverse(E) == {<<e[2], e[1]>> : e \in E}

\* nx.ancestors / nx.descendants: what the search from source reaches,
\* source excluded.
ancestorsDirectOnly(g, source) == {e[1] : e \in {f \in g.edges : f[2] = source}}
ancestors(g, source) == bfs(Reverse(g.edges), {source}, {source}) \ {source}
descendantsDirectOnly(g, source) == {e[2] : e \in {f \in g.edges : f[1] = source}}
descendants(g, source) == bfs(g.edges, {source}, {source}) \ {source}

get_transitive_dependencies(full_address) ==
    IF full_address \notin graph.nodes THEN {} ELSE ancestors(graph, full_address)

get_transitive_dependents(full_address) ==
    IF full_address \notin graph.nodes THEN {} ELSE descendants(graph, full_address)

\* A list comprehension over self.nodes.items(), in insertion order.
RECURSIVE SelectSeq2(_, _)
SelectSeq2(s, S) ==
    IF s = <<>> THEN <<>>
    ELSE (IF Head(s) \in S THEN <<Head(s)>> ELSE <<>>) \o SelectSeq2(Tail(s), S)

input_cells_without_formula_test ==
    SelectSeq2(NodeOrder, {a \in DOMAIN nodes : nodes[a].dependencies = {}})
get_input_cells ==
    SelectSeq2(NodeOrder, {a \in DOMAIN nodes :
        nodes[a].dependencies = {} /\ nodes[a].formula = NoFormula})

get_output_cells ==
    SelectSeq2(NodeOrder, {a \in DOMAIN nodes :
        nodes[a].dependents = {} /\ nodes[a].formula # NoFormula})

\* get_calculation_order: the formula cells grouped by level; bucket i of
\* the code is element i + 1 of the sequence.
FormulaNodes == {a \in DOMAIN nodes : nodes[a].formula # NoFormula}
LevelBucket(i) ==
    SelectSeq2(NodeOrder, {a \in FormulaNodes : nodes[a].level = i})
RECURSIVE DropEmpty(_)
DropEmpty(s) ==
    IF s = <<>> THEN <<>>
    ELSE (IF Head(s) = <<>> THEN <<>> ELSE <<Head(s)>>) \o DropEmpty(Tail(s))
BucketOfAnyNode(i) ==
    SelectSeq2(NodeOrder, {a \in DOMAIN nodes : nodes[a].level = i})
calculation_order_compacted ==
    LET max_level == IF FormulaNodes = {} THEN 0
                     ELSE SetMax({nodes[a].level : a \in FormulaNodes})
    IN DropEmpty([i \in 1..(max_level + 1) |-> LevelBucket(i - 1)])
calculation_order_all_nodes ==
    LET max_level == IF FormulaNodes = {} THEN 0
                     ELSE SetMax({nodes[a].level : a \in FormulaNodes})
    IN [i \in 1..(max_level + 1) |-> BucketOfAnyNode(i - 1)]
calculation_order_reversed ==
    LET max_level == IF FormulaNodes = {} THEN 0
                     ELSE SetMax({nodes[a].level : a \in FormulaNodes})
    IN [i \in 1..(max_level + 1) |-> LevelBucket(max_level + 1 - i)]
get_calculation_order ==
    LET max_level == IF FormulaNodes = {} THEN 0
                     ELSE SetMax({nodes[a].level : a \in FormulaNodes})
    IN [i \in 1..(max_level + 1) |-> LevelBucket(i - 1)]

\* export_stats.  The average is kept as the pair <<sum of the dependency
\* counts, number of nodes>>, 0 for an object without nodes.
RECURSIVE SumOfSizes(_, _)
SumOfSizes(S, size) ==
    IF S = {} THEN 0
    ELSE LET x == CHOOSE y \in S : TRUE
         IN size[x] + SumOfSizes(S \ {x}, size)
export_stats_counting_literals ==
    LET calc_order == calculation_order_all_nodes
    IN [total_cells |-> Cardinality(DOMAIN nodes),
        formula_cells |-> Cardinality(FormulaNodes),
        input_cells |-> Len(get_input_cells),
        output_cells |-> Len(get_output_cells),
        max_level |-> IF DOMAIN nodes = {} THEN 0
                      ELSE SetMax({nodes[n].level : n \in DOMAIN nodes}),
        cells_per_level |-> [i \in 0..(Len(calc_order) - 1) |-> Len(calc_order[i + 1])],
        avg_dependencies |->
            IF DOMAIN nodes = {} THEN 0
            ELSE <<SumOfSizes(DOMAIN nodes,
                              [n \in DOMAIN nodes |-> Cardinality(nodes[n].dependencies)]),
                   Cardinality(DOMAIN nodes)>>,
        max_dependencies |->
            IF DOMAIN nodes = {} THEN 0
            ELSE SetMax({Cardinality(nodes[n].dependencies) : n \in DOMAIN nodes}),
        is_dag |-> is_directed_acyclic_graph(graph)]
export_stats ==
    LET calc_order == get_calculation_order
    IN [total_cells |-> Cardinality(DOMAIN nodes),
        formula_cells |-> Cardinality(FormulaNodes),
        input_cells |-> Len(get_input_cells),
        output_cells |-> Len(get_output_cells),
        max_level |-> IF DOMAIN nodes = {} THEN 0
                      ELSE SetMax({nodes[n].level : n \in DOMAIN nodes}),
        cells_per_level |-> [i \in 0..(Len(calc_order) - 1) |-> Len(calc_order[i + 1])],
        avg_dependencies |->
            IF DOMAIN nodes = {} THEN 0
            ELSE <<SumOfSizes(DOMAIN nodes,
                              [n \in DOMAIN nodes |-> Cardinality(nodes[n].dependencies)]),
                   Cardinality(DOMAIN nodes)>>,
        max_dependencies |->
            IF DOMAIN nodes = {} THEN 0
            ELSE SetMax({Cardinality(nodes[n].dependencies) : n \in DOMAIN nodes}),
        is_dag |-> is_directed_acyclic_graph(graph)]

Next ==
    \/ FirstPass
    \/ SecondPassStep
    \/ CheckCycles
    \/ CalculateLevels

Spec == Init /\ [][Next]_vars

\* build() on the listings that vary the spelling of the references and
\* the named ranges of the workbook.
SpecRefs == InitRefs /\ [][Next]_vars

\* ------------------------------------------- level assignment on its own
\* networkx.exception: each exception class and its base class.
ExceptionBase ==
    [c \in {"NetworkXError", "NetworkXAlgorithmError"} |-> "NetworkXException"]
    @@ [c \in {"NetworkXUnfeasible"} |-> "NetworkXAlgorithmError"]
    @@ [c \in {"NetworkXException"} |-> "Exception"]
RECURSIVE IsSubclass(_, _)
IsSubclass(c, d) ==
    \/ c = d
    \/ c \in DOMAIN ExceptionBase /\ IsSubclass(ExceptionBase[c], d)
\* `except nx.NetworkXError`
CaughtByHandler(exception) == IsSubclass(exception, "NetworkXError")

\* _calculate_levels() called on the graph as the edge pass left it,
\* without the cycle check before it.  nx.topological_sort raises
\* NetworkXUnfeasible when the graph has a cycle; the handler logs and
\* returns if it catches the exception, otherwise the exception leaves the
\* method.
CalculateLevelsUnchecked ==
    /\ pc = "check_cycles"
    /\ IF TopologicalSorts(graph.nodes, graph.edges) = {}
       THEN /\ IF CaughtByHandler("NetworkXUnfeasible")
               THEN pc' = "done" /\ error' = {<<"logged">>}
               ELSE pc' = "raised" /\ error' = {<<"NetworkXUnfeasible">>}
            /\ UNCHANGED nodes
       ELSE /\ \E topo_order \in TopologicalSorts(graph.nodes, graph.edges) :
                  LET levels == AssignLevels(topo_order, 1, <<>>)
                  IN nodes' = [k \in DOMAIN nodes |->
                                  [nodes[k] EXCEPT !.level = levels[k]]]
            /\ pc' = "done"
            /\ UNCHANGED error
    /\ UNCHANGED <<cells, named_ranges, graph, idx>>
    /\ UNCHANGED parser_vars

NextLevels ==
    \/ FirstPass
    \/ SecondPassStep
    \/ CalculateLevelsUnchecked

\* The node pass, the edge pass and then _calculate_levels() directly.
SpecLevels == Init /\ [][NextLevels]_vars

\* ------------------------------------------------------------ FormulaParser
\* FormulaType, by its value.
ARITHMETIC == "arithmetic"
LOGICAL == "logical"
LOOKUP == "lookup"
TEXT == "text"
STATISTICAL == "statistical"
FINANCIAL == "financial"
DATE_TIME == "datetime"
UNKNOWN == "unknown"
FUNCTION_CATEGORIES ==
    [f \in {"SUM", "AVERAGE", "COUNT", "MAX", "MIN", "STDEV", "VAR", "SUMIF",
            "SUMIFS", "COUNTIF", "COUNTIFS", "AVERAGEIF", "AVERAGEIFS"}
        |-> STATISTICAL]
    @@ [f \in {"VLOOKUP", "HLOOKUP", "INDEX", "MATCH", "XLOOKUP", "OFFSET",
               "INDIRECT"} |-> LOOKUP]
    @@ [f \in {"IF", "IFS", "AND", "OR", "NOT"} |-> LOGICAL]
    @@ [f \in {"CONCATENATE", "CONCAT", "LEFT", "RIGHT", "MID", "LEN", "TRIM",
               "UPPER", "LOWER"} |-> TEXT]
    @@ [f \in {"NPV", "IRR", "PV", "FV", "PMT", "XIRR", "XNPV"} |-> FINANCIAL]
    @@ [f \in {"DATE", "TODAY", "NOW", "YEAR", "MONTH", "DAY"} |-> DATE_TIME]

\* str.upper() on the function names of the explored texts.
LowerCaseSpellings == [n \in {"sum"} |-> "SUM"]
upper(name) ==
    IF name \in DOMAIN LowerCaseSpellings THEN LowerCaseSpellings[name] ELSE name

\* formula.lstrip('='): every leading "=" goes.
RECURSIVE lstrip(_)
lstrip(formula) ==
    IF formula # <<>> /\ Head(formula) = EqTok THEN lstrip(Tail(formula))
    ELSE formula

\* The tokens of one kind, in the order of the text.
RECURSIVE TokensOfKind(_, _)
TokensOfKind(formula, kind) ==
    IF formula = <<>> THEN <<>>
    ELSE (IF Head(formula).kind = kind THEN <<Head(formula)>> ELSE <<>>)
         \o TokensOfKind(Tail(formula), kind)

\* [m.upper() for m in self._function_pattern.findall(formula)]
_extract_functions(formula) ==
    [i \in 1..Len(TokensOfKind(formula, "fn")) |->
        upper(TokensOfKind(formula, "fn")[i].name)]

\* The text of a match of _cell_pattern: $ markers, letters, digits.
CellText(tok) ==
    [absCol |-> tok.absCol, col |-> tok.col, absRow |-> tok.absRow, row |-> tok.row]
\* The matches of _range_pattern: reference, colon, reference.
RangeMatches(formula) ==
    {j \in 1..(Len(formula) - 2) :
        /\ formula[j].kind = "ref"
        /\ formula[j + 1].kind = "colon"
        /\ formula[j + 2].kind = "ref"}
_extract_range_references(formula) ==
    {<<CellText(formula[j]), CellText(formula[j + 2])>> : j \in RangeMatches(formula)}
cell_references_with_range_boundaries(formula) ==
    {CellText(formula[j]) : j \in RefPositions(formula)}
\* The ranges are cut out of the text first; what _cell_pattern then finds
\* are the references outside every range.
_extract_cell_references(formula) ==
    {CellText(formula[j]) :
        j \in {i \in RefPositions(formula) :
                  i \notin RangeMatches(formula) /\ (i - 2) \notin RangeMatches(formula)}}
\* Identifiers that are neither function nor reference nor keyword.
_extract_named_ranges(formula) ==
    {TokensOfKind(formula, "name")[i].name :
        i \in {j \in 1..Len(TokensOfKind(formula, "name")) :
                  upper(TokensOfKind(formula, "name")[j].name)
                      \notin {"TRUE", "FALSE", "NULL", "AND", "OR", "NOT"}}}
\* The numbers of the text, in order.
_extract_constants(formula) ==
    [i \in 1..Len(TokensOfKind(formula, "num")) |-> TokensOfKind(formula, "num")[i].row]
\* list(set(matches)): the distinct operator runs.
_extract_operators(formula) ==
    {TokensOfKind(formula, "op")[i].col : i \in 1..Len(TokensOfKind(formula, "op"))}
    \cup (IF TokensOfKind(formula, "eq") # <<>> THEN {"="} ELSE {})

determine_type_by_last_function(functions) ==
    IF functions = <<>> THEN ARITHMETIC
    ELSE IF functions[Len(functions)] \in DOMAIN FUNCTION_CATEGORIES
         THEN FUNCTION_CATEGORIES[functions[Len(functions)]]
         ELSE UNKNOWN
\* FUNCTION_CATEGORIES.get(functions[0], UNKNOWN), ARITHMETIC without
\* functions.
_determine_type(functions) ==
    IF functions = <<>> THEN ARITHMETIC
    ELSE IF functions[1] \in DOMAIN FUNCTION_CATEGORIES
         THEN FUNCTION_CATEGORIES[functions[1]]
         ELSE UNKNOWN

complex_functions ==
    {"VLOOKUP", "INDEX", "MATCH", "OFFSET", "INDIRECT", "SUMIFS", "COUNTIFS"}
complexity_without_cap(functions, cell_refs, range_refs, operators) ==
    Len(functions) * 5
    + (IF Len(functions) > 1 THEN (Len(functions) - 1) * 10 ELSE 0)
    + Cardinality(cell_refs) * 2
    + Cardinality(range_refs) * 5
    + 10 * Cardinality({i \in 1..Len(functions) : functions[i] \in complex_functions})
    + Cardinality(operators) * 2
_calculate_complexity(functions, cell_refs, range_refs, operators) ==
    Min2(Len(functions) * 5
         + (IF Len(functions) > 1 THEN (Len(functions) - 1) * 10 ELSE 0)
         + Cardinality(cell_refs) * 2
         + Cardinality(range_refs) * 5
         + 10 * Cardinality({i \in 1..Len(functions) : functions[i] \in complex_functions})
         + Cardinality(operators) * 2,
         100)

\* FormulaParser.parse: the ParsedFormula of a text.
parse(text) ==
    LET formula == lstrip(text)
        functions == _extract_functions(formula)
        cell_refs == _extract_cell_references(formula)
        range_refs == _extract_range_references(formula)
        operators == _extract_operators(formula)
    IN [original |-> formula,
        formula_type |-> _determine_type(functions),
        functions |-> functions,
        cell_references |-> cell_refs,
        range_references |-> range_refs,
        named_ranges |-> _extract_named_ranges(formula),
        constants |-> _extract_constants(formula),
        operators |-> operators,
        complexity_score |->
            _calculate_complexity(functions, cell_refs, range_refs, operators)]

\* can_vectorize: the type test, then the function test; the closing
\* LOOKUP test and the final return both give False.
vectorizable_types == {ARITHMETIC, STATISTICAL}
vectorizable_functions == {"SUM", "AVERAGE", "COUNT", "MAX", "MIN", "STDEV", "VAR"}
can_vectorize(formula) ==
    IF formula.formula_type \in vectorizable_types THEN TRUE
    ELSE IF \E i \in 1..Len(formula.functions) :
                formula.functions[i] \in vectorizable_functions THEN TRUE
    ELSE IF formula.formula_type = LOOKUP THEN FALSE
    ELSE FALSE

\* suggest_python_approach
suggest_python_approach(formula) ==
    IF can_vectorize(formula)
    THEN (IF formula.range_references # {} THEN "pandas_method" ELSE "vectorized")
    ELSE IF formula.formula_type = LOOKUP THEN "pandas_method"
    ELSE IF formula.complexity_score > 50 THEN "custom"
    ELSE "iterative"

\* ------------------------------------------------------- texts to be parsed
\* The function names written in the explored texts; FOO is in no table.
FunctionNames == {"SUM", "sum", "IF", "VLOOKUP", "INDEX", "NPV", "FOO"}
\* f1(f2(...(argument)...)) for a sequence of function names.
RECURSIVE Nest(_, _)
Nest(calls, argument) ==
    IF calls = <<>> THEN argument
    ELSE <<FnTok(Head(calls))>> \o Nest(Tail(calls), argument) \o <<RParenTok>>
CallSequences == UNION {[1..n -> FunctionNames] : n \in 0..MaxCalls}
\* A1, A1:C1, A1:A10, 5 and A1+B1.
Arguments ==
    {<<RefTok("", "A", TheRow)>>,
     <<RefTok("", "A", TheRow), ColonTok, RefTok("", "C", TheRow)>>,
     <<RefTok("", "A", TheRow), ColonTok, RefTok("", "A", 10)>>,
     <<NumTok>>,
     <<RefTok("", "A", TheRow), PlusTok, RefTok("", "B", TheRow)>>}
\* Nothing, *2, +B1 or +MATCH(B1:C1) after the calls.
Tails ==
    {<<>>, <<TimesTok, TwoTok>>, <<PlusTok, RefTok("", "B", TheRow)>>,
     <<PlusTok, FnTok("MATCH"), RefTok("", "B", TheRow), ColonTok,
       RefTok("", "C", TheRow), RParenTok>>}
\* With or without the leading "=".
ParserTexts ==
    {lead \o Nest(calls, argument) \o tail :
        lead \in {<<>>, <<EqTok>>}, calls \in CallSequences,
        argument \in Arguments, tail \in Tails}

InitParser ==
    /\ parser_input \in ParserTexts
    /\ parsed = <<>>
    /\ cells = <<>>
    /\ named_ranges = <<>>
    /\ nodes = <<>>
    /\ graph = [nodes |-> {}, edges |-> {}]
    /\ pc = "new"
    /\ idx = 1
    /\ error = {}

\* parsed = parser.parse(formula)
Parse ==
    /\ parsed' = <<parse(parser_input)>>
    /\ UNCHANGED <<cells, named_ranges, nodes, graph, pc, idx, error, parser_input>>

\* FormulaParser on the explored texts.
SpecParser == InitParser /\ [][Parse]_vars

\* ------------------------------------------------------------- properties
\* Every address a query can be asked about: the three cells of Sheet1 and
\* the never-listed Sheet2!A1.
AllAddresses == CellKeys \cup {<<OtherSheet, "A", TheRow>>}

\* Transitive closure of a relation given as a set of pairs.
RECURSIVE TransitiveClosure(_)
TransitiveClosure(R) ==
    LET R2 == R \cup UNION {{<<e[1], f[2]>> : f \in {h \in R : h[1] = e[2]}} : e \in R}
    IN IF R2 = R THEN R ELSE TransitiveClosure(R2)

\* The edge relation the listing defines: referenced listed cell ->
\* referencing listed formula cell.
ListingEdges ==
    {<<d, k>> \in (DOMAIN cells) \X (DOMAIN cells) :
        /\ cells[k].formula # NoFormula
        /\ d \in _extract_dependencies(cells[k].formula, k[1])}
HasCycle(E) == \E e \in TransitiveClosure(E) : e[1] = e[2]
Succeeded == pc = "done"
Failed == pc = "failed"
SomeReferenceUnlisted ==
    \E k \in DOMAIN nodes : ~ (nodes[k].dependencies \subseteq DOMAIN nodes)

\* C1: after a successful build, every edge (dep -> dependent) goes from a
\* strictly lower level to a higher one, also in listings whose formulas
\* reference cells that are not listed.
C1_EdgeLevelsIncrease ==
    Succeeded => \A e \in graph.edges : nodes[e[1]].level < nodes[e[2]].level
\* C1 witness: a successful build with a chain of two edges and a formula
\* that references an unlisted cell.
C1_Witness ==
    /\ Succeeded
    /\ SomeReferenceUnlisted
    /\ \E e \in graph.edges : \E f \in graph.edges : e[2] = f[1]

\* C2: build() fails exactly when the listing's edge relation has a directed
\* cycle (a self-reference being one), and a build that got past the cycle
\* check has an acyclic edge relation.
C2_FailsIffCycle ==
    /\ Failed => HasCycle(ListingEdges)
    /\ pc \in {"calculate_levels", "done"} =>
          ~ HasCycle(ListingEdges) /\ ~ HasCycle(graph.edges)
\* C2 witness: a failed build whose only cycles are self-references.
C2_Witness ==
    /\ Failed
    /\ \E n \in DOMAIN nodes : <<n, n>> \in graph.edges
    /\ ~ HasCycle({e \in graph.edges : e[1] # e[2]})

IsRotation(c, d) ==
    /\ Len(c) = Len(d)
    /\ \E r \in 0..(Len(c) - 1) :
          \A i \in 1..Len(c) : d[i] = c[((i - 1 + r) % Len(c)) + 1]
CellA1 == <<TheSheet, "A", TheRow>>
CellB1 == <<TheSheet, "B", TheRow>>
CellC1 == <<TheSheet, "C", TheRow>>
\* The listing Sheet1!A1 = "=B1", Sheet1!B1 = "=A1".
TwoCellLoop ==
    /\ DOMAIN cells = {CellA1, CellB1}
    /\ cells[CellA1].formula = FormulaText(<<RefTok("", "B", TheRow)>>)
    /\ cells[CellB1].formula = FormulaText(<<RefTok("", "A", TheRow)>>)

\* C3: a failed build reports at most 5 cycles, each a non-empty list of
\* nodes whose consecutive pairs, and last -> first, are edges; for the
\* listing A1 = "=B1", B1 = "=A1" the report holds a rotation of [A1, B1].
C3_CycleSample ==
    Failed =>
        /\ Cardinality(error) <= 5
        /\ error # {}
        /\ \A c \in error :
              /\ Len(c) >= 1
              /\ \A i \in 1..Len(c) :
                    /\ c[i] \in DOMAIN nodes
                    /\ <<c[i], c[(i % Len(c)) + 1]>> \in graph.edges
        /\ TwoCellLoop => \E c \in error : IsRotation(<<CellA1, CellB1>>, c)
\* C3 witness: a failed build of a graph with more than 5 elementary cycles.
C3_Witness ==
    /\ Failed
    /\ Cardinality(simple_cycles(graph)) > 5
    /\ Cardinality(error) = 5

\* C4 (as claimed): after a failed build the object answers no query from
\* the partially built nodes and edges.
C4_NotQueryableAfterFailure ==
    Failed =>
        /\ \A a \in AllAddresses :
              /\ get_dependencies(a) = {}
              /\ get_dependents(a) = {}
              /\ get_transitive_dependencies(a) = {}
              /\ get_transitive_dependents(a) = {}
        /\ get_input_cells = <<>>
        /\ get_output_cells = <<>>

\* C5 (as claimed): after a successful build, Y is in get_dependents(X)
\* exactly when X is in get_dependencies(Y), for all addresses X and Y.
C5_DependentsSymmetric ==
    Succeeded =>
        \A X \in AllAddresses : \A Y \in AllAddresses :
            (Y \in get_dependents(X)) <=> (X \in get_dependencies(Y))

\* C6: once the node pass has run, the nodes are exactly the cells of the
\* listing (formula and value carried over), the graph has the same nodes,
\* and both endpoints of every edge are nodes; a reference to an unlisted
\* address creates neither node nor edge.
C6_NodesAreListing ==
    pc # "new" =>
        /\ DOMAIN nodes = DOMAIN cells
        /\ graph.nodes = DOMAIN cells
        /\ \A k \in DOMAIN nodes :
              /\ nodes[k].full_address = k
              /\ nodes[k].formula = cells[k].formula
        /\ \A e \in graph.edges : e[1] \in DOMAIN cells /\ e[2] \in DOMAIN cells
\* C6 witness: a finished build of a listing with a formula that references
\* an unlisted address.
C6_Witness ==
    /\ Succeeded
    /\ \E k \in DOMAIN cells :
          \E d \in _extract_dependencies(cells[k].formula, k[1]) : d \notin DOMAIN cells

\* C7 (as claimed): after build, every address in a node's dependencies is
\* the key of a node.
C7_DependenciesAreNodes ==
    pc \in {"done", "failed"} =>
        \A Y \in DOMAIN nodes : get_dependencies(Y) \subseteq DOMAIN nodes

Predecessors(n) == {e[1] : e \in {f \in graph.edges : f[2] = n}}
\* C8 (as claimed): after a successful build a node without incoming edge
\* has level 0 and any other node has level 1 + the largest level among the
\* nodes it depends on.
C8_LevelRule ==
    Succeeded =>
        \A n \in DOMAIN nodes :
            nodes[n].level =
                IF Predecessors(n) = {} THEN 0
                ELSE 1 + SetMax({nodes[d].level : d \in Predecessors(n)})

\* C9 (as claimed): after a successful build, the transitive dependencies of
\* X are its dependencies together with their transitive dependencies.
C9_ClosureLaw ==
    Succeeded =>
        \A X \in AllAddresses :
            get_transitive_dependencies(X) =
                get_dependencies(X)
                \cup UNION {get_transitive_dependencies(d) : d \in get_dependencies(X)}

\* C10: after a successful build, the transitive dependencies of an address
\* are the nodes from which it is reachable along one or more edges, its
\* transitive dependents the nodes reachable from it, and both are empty for
\* an address that is no node.
C10_TransitiveReachability ==
    Succeeded =>
        \A a \in AllAddresses :
            /\ get_transitive_dependencies(a) =
                  {n \in DOMAIN nodes : <<n, a>> \in TransitiveClosure(ListingEdges)}
            /\ get_transitive_dependents(a) =
                  {n \in DOMAIN nodes : <<a, n>> \in TransitiveClosure(ListingEdges)}
            /\ a \notin DOMAIN cells =>
                  /\ get_transitive_dependencies(a) = {}
                  /\ get_transitive_dependents(a) = {}
\* C10 witness: a successful build where C1 depends on A1 only through B1,
\* and some address is no node.
C10_Witness ==
    /\ Succeeded
    /\ AllAddresses \ DOMAIN nodes # {}
    /\ \E a \in DOMAIN nodes :
          \E n \in get_transitive_dependencies(a) : <<n, a>> \notin graph.edges

\* Largest level over all nodes, 0 for the empty graph.
MaxLevelOfNodes ==
    IF DOMAIN nodes = {} THEN 0 ELSE SetMax({nodes[a].level : a \in DOMAIN nodes})
ListedFormulaCells == {k \in DOMAIN cells : cells[k].formula # NoFormula}
ListedLiteralCells == {k \in DOMAIN cells : cells[k].formula = NoFormula}

\* C11: after a successful build, get_calculation_order() has exactly
\* maxLevel + 1 buckets (maxLevel taken over all nodes), bucket i holds
\* exactly the formula cells of level i, each once, no literal cell is in
\* any bucket, and a level without formula cell is an empty bucket.
C11_CalculationOrderBuckets ==
    Succeeded =>
        LET order == get_calculation_order
        IN /\ Len(order) = MaxLevelOfNodes + 1
           /\ \A i \in 1..Len(order) :
                 /\ SeqRange(order[i]) =
                       {k \in ListedFormulaCells : nodes[k].level = i - 1}
                 /\ Len(order[i]) = Cardinality(SeqRange(order[i]))
           /\ \A k \in ListedFormulaCells :
                 Cardinality({i \in 1..Len(order) : k \in SeqRange(order[i])}) = 1
           /\ \A k \in ListedLiteralCells :
                 \A i \in 1..Len(order) : k \notin SeqRange(order[i])
\* C11 witness: a successful build with a literal cell whose calculation
\* order has an empty bucket followed by a non-empty one.
C11_Witness ==
    /\ Succeeded
    /\ ListedLiteralCells # {}
    /\ Len(get_calculation_order) >= 2
    /\ get_calculation_order[1] = <<>>
    /\ get_calculation_order[Len(get_calculation_order)] # <<>>

\* The example listing: A1 = 10, B1 = "=A1*2", C1 = "=B1+5" on Sheet1.
ChainListing ==
    /\ DOMAIN cells = {CellA1, CellB1, CellC1}
    /\ cells[CellA1].formula = NoFormula
    /\ cells[CellA1].value = 10
    /\ cells[CellB1].formula = ExampleFormulaB
    /\ cells[CellC1].formula = ExampleFormulaC

\* C12: for the example listing the build does not fail, and once done
\* inputCells = [A1], outputCells = [C1], the levels are A1 -> 0, B1 -> 1,
\* C1 -> 2 and calculationOrder = [[], [B1], [C1]].
C12_ChainExample ==
    ChainListing =>
        /\ ~ Failed
        /\ Succeeded =>
              /\ get_input_cells = <<CellA1>>
              /\ get_output_cells = <<CellC1>>
              /\ nodes[CellA1].level = 0
              /\ nodes[CellB1].level = 1
              /\ nodes[CellC1].level = 2
              /\ get_calculation_order = <<(<<>>), <<CellB1>>, <<CellC1>>>>
\* C12 witness: the build of the example listing has finished.
C12_Witness == ChainListing /\ Succeeded

C14_EqualLevelsUnordered ==
    Succeeded =>
        \A a \in DOMAIN nodes : \A b \in DOMAIN nodes :
            (a # b /\ nodes[a].level = nodes[b].level) =>
                /\ <<a, b>> \notin TransitiveClosure(graph.edges)
                /\ <<b, a>> \notin TransitiveClosure(graph.edges)
\* C14 witness: a successful build with two distinct nodes sharing a level
\* above 0 and a path of two edges elsewhere in the graph.
C14_Witness ==
    /\ Succeeded
    /\ \E a \in DOMAIN nodes : \E b \in DOMAIN nodes :
          a # b /\ nodes[a].level = nodes[b].level /\ nodes[a].level > 0
    /\ graph.edges # {}

\* C15 (as claimed): at no moment of build() does a reader see a part of
\* the build's edges: the graph holds none or all of the listing's edges,
\* and every node's dependents and dependencies sets are empty or complete.
C15_EdgesCommittedAtomically ==
    /\ graph.edges = {} \/ graph.edges = ListingEdges
    /\ \A k \in DOMAIN nodes :
          /\ \/ nodes[k].dependents = {}
             \/ nodes[k].dependents = {e[2] : e \in {f \in ListingEdges : f[1] = k}}
          /\ \/ nodes[k].dependencies = {}
             \/ nodes[k].dependencies =
                   _extract_dependencies(cells[k].formula, k[1])

\* Number of edges on a shortest path from a set of start nodes to n, or -1
\* when none of them reaches n.
RECURSIVE HopsFrom(_, _, _, _)
HopsFrom(frontier, seen, n, hops) ==
    IF n \in frontier THEN hops
    ELSE LET nxt == {e[2] : e \in {f \in graph.edges : f[1] \in frontier}} \ seen
         IN IF nxt = {} THEN -1 ELSE HopsFrom(nxt, seen \cup nxt, n, hops + 1)
MinHopsFromInputs(n) ==
    HopsFrom(SeqRange(get_input_cells), SeqRange(get_input_cells), n, 0)

\* C16 (as claimed): the level of a cell is the minimum number of hops from
\* any input cell to it (for the cells some input cell reaches).
C16_LevelIsMinHops ==
    Succeeded =>
        \A n \in DOMAIN nodes :
            MinHopsFromInputs(n) # -1 => nodes[n].level = MinHopsFromInputs(n)

\* The chains of recorded dependencies that end at address a.
RECURSIVE ChainsTo(_)
ChainsTo(a) ==
    {<<a>>} \cup
    (IF a \in DOMAIN nodes
     THEN UNION {{Append(c, a) : c \in ChainsTo(d)} : d \in nodes[a].dependencies}
     ELSE {})
MaxHopsTo(a) == SetMax({Len(c) - 1 : c \in ChainsTo(a)})

\* C16 (amended): the level of a cell is the maximum number of hops on a
\* chain of recorded dependencies ending at it, a recorded dependency on an
\* address without node counting as one hop.
C16_LevelIsMaxHops ==
    Succeeded => \A n \in DOMAIN nodes : nodes[n].level = MaxHopsTo(n)
\* C16 witness: a successful build with a cell whose shortest and longest
\* dependency chains from an input cell differ.
C16_Witness ==
    /\ Succeeded
    /\ \E n \in DOMAIN nodes :
          MinHopsFromInputs(n) # -1 /\ MinHopsFromInputs(n) < MaxHopsTo(n)

\* -------------------------------------------- properties of the extraction
SecondPassDone == pc \in {"check_cycles", "calculate_levels", "done"}
\* The cell a reference token stands for in a formula of holder_sheet.
Denotes(tok, holder_sheet) ==
    <<(IF tok.sheet = "" THEN holder_sheet ELSE StripQuotes(tok.sheet)),
      tok.col, tok.row>>
\* Positions where a range first:last starts, and the positions of the
\* reference tokens that are not a boundary of the range starting at j.
RangeStarts(f) ==
    {j \in 1..(Len(f) - 2) :
        f[j].kind = "ref" /\ f[j + 1].kind = "colon" /\ f[j + 2].kind = "ref"}
OutsideRange(f, j) == {k \in 1..Len(f) : f[k].kind = "ref"} \ {j, j + 2}
\* The cells strictly inside the range starting at j, on the range's sheet.
Interior(f, j, holder_sheet) ==
    CellsBetween(Denotes(f[j], holder_sheet),
                 <<Denotes(f[j], holder_sheet)[1], f[j + 2].col, f[j + 2].row>>)
HolderCell == CHOOSE h \in DOMAIN cells : cells[h].formula # NoFormula

SpellingsOfA1 ==
    {AbsTok(TRUE, "A", TRUE), AbsTok(FALSE, "A", TRUE),
     AbsTok(TRUE, "A", FALSE), AbsTok(FALSE, "A", FALSE)}

\* C18: once the edge pass has run, the dependencies of a formula cell h
\* are the addresses of its reference tokens, each <<sheet, column, row>>
\* with the written sheet prefix or, without prefix, the sheet of h, and
\* without the $ markers: a formula that is one of $A$1, A$1, $A1, A1
\* depends on exactly A1 of h's sheet, and "=A1+B1" on Sheet1 on exactly
\* {Sheet1!A1, Sheet1!B1}.
C18_ExtractedAddresses ==
    SecondPassDone =>
        \A h \in FormulaNodes :
            LET f == nodes[h].formula
            IN /\ nodes[h].dependencies =
                     {<<(IF f[k].sheet = "" THEN h[1] ELSE StripQuotes(f[k].sheet)),
                        f[k].col, f[k].row>> :
                         k \in {j \in 1..Len(f) : f[j].kind = "ref"}}
               /\ (\E t \in SpellingsOfA1 : f = <<EqTok, t>>)
                     => nodes[h].dependencies = {<<h[1], "A", TheRow>>}
               /\ (h[1] = TheSheet /\ f = FormulaText(<<RefTok("", "A", TheRow),
                                                         RefTok("", "B", TheRow)>>))
                     => nodes[h].dependencies = {CellA1, CellB1}
\* C18 witness: a finished build where Sheet2!D1 = "=$A$1" depends on
\* Sheet2!A1, which is a node.
C18_Witness ==
    /\ Succeeded
    /\ HolderCell = <<OtherSheet, "D", TheRow>>
    /\ cells[HolderCell].formula = <<EqTok, AbsTok(TRUE, "A", TRUE)>>
    /\ nodes[HolderCell].dependencies = {<<OtherSheet, "A", TheRow>>}
    /\ <<(<<OtherSheet, "A", TheRow>>), HolderCell>> \in graph.edges

\* What the text of the formula of listed cell k references, and the level
\* that follows from the texts of the listing alone.
ReferencedByText(k) ==
    {Denotes(cells[k].formula[j], k[1]) :
        j \in {i \in 1..Len(cells[k].formula) : cells[k].formula[i].kind = "ref"}}
RECURSIVE LevelFromText(_)
LevelFromText(k) ==
    IF k \notin DOMAIN cells THEN 0
    ELSE IF ReferencedByText(k) = {} THEN 0
    ELSE SetMax({LevelFromText(d) : d \in ReferencedByText(k)}) + 1

\* C19: the nodes, the dependencies and dependents sets, the edges and the
\* levels that build() produces are determined by the cell listing alone:
\* they equal expressions that do not read named_ranges, whatever that
\* mapping holds and whether or not a formula mentions one of its names.
C19_NamedRangesIgnored ==
    /\ SecondPassDone =>
          /\ DOMAIN nodes = DOMAIN cells
          /\ graph.nodes = DOMAIN cells
          /\ \A k \in DOMAIN nodes :
                /\ nodes[k].dependencies = ReferencedByText(k)
                /\ nodes[k].dependents =
                      {j \in DOMAIN cells : k \in ReferencedByText(j)}
          /\ graph.edges =
                {e \in (DOMAIN cells) \X (DOMAIN cells) : e[1] \in ReferencedByText(e[2])}
    /\ Succeeded => \A k \in DOMAIN nodes : nodes[k].level = LevelFromText(k)
\* C19 witness: a finished build where Rate names a range whose cells are
\* nodes and the formula cell mentions Rate, yet depends on none of them.
C19_Witness ==
    /\ Succeeded
    /\ "Rate" \in DOMAIN named_ranges
    /\ MentionsName(cells[HolderCell].formula, "Rate")
    /\ {named_ranges["Rate"].address[1], named_ranges["Rate"].address[2]}
          \subseteq DOMAIN nodes
    /\ named_ranges["Rate"].address[1] # named_ranges["Rate"].address[2]
    /\ nodes[HolderCell].dependencies = {CellB1}

\* ------------------------------------------------ properties of the parser
\* The function names of the text handed to the parser, as written, in the
\* order of the text.
WrittenFunctions == TokensOfKind(parser_input, "fn")

\* C20: the type of a parsed formula is ARITHMETIC when the text invokes no
\* function; otherwise it is decided by the first function name of the
\* text alone, in upper case: its category in the table, or UNKNOWN when
\* the table lacks it, whatever functions follow.
C20_TypeFromFirstFunction ==
    Len(parsed) = 1 =>
        IF WrittenFunctions = <<>> THEN parsed[1].formula_type = ARITHMETIC
        ELSE LET first == upper(WrittenFunctions[1].name)
             IN /\ first \in DOMAIN FUNCTION_CATEGORIES
                      => parsed[1].formula_type = FUNCTION_CATEGORIES[first]
                /\ first \notin DOMAIN FUNCTION_CATEGORIES
                      => parsed[1].formula_type = UNKNOWN
                /\ first = "SUM" => parsed[1].formula_type = STATISTICAL
                /\ first = "VLOOKUP" => parsed[1].formula_type = LOOKUP
                /\ first = "FOO" => parsed[1].formula_type = UNKNOWN
\* C20 witness: a parsed text whose first function is in no table and is
\* followed by functions of the table; its type is UNKNOWN.
C20_Witness ==
    /\ Len(parsed) = 1
    /\ Len(parsed[1].functions) = 3
    /\ parsed[1].functions[1] \notin DOMAIN FUNCTION_CATEGORIES
    /\ parsed[1].functions[2] = "SUM"
    /\ parsed[1].functions[3] \in DOMAIN FUNCTION_CATEGORIES
    /\ parsed[1].formula_type = UNKNOWN

\* The counts the score is made of, taken from the parsed formula.
ComplexityTerms(p) ==
    LET F == Len(p.functions)
        C == Cardinality(p.cell_references)
        R == Cardinality(p.range_references)
        K == Cardinality({i \in 1..Len(p.functions) :
                 p.functions[i] \in {"VLOOKUP", "INDEX", "MATCH", "OFFSET",
                                     "INDIRECT", "SUMIFS", "COUNTIFS"}})
        O == Cardinality(p.operators)
    IN 5 * F + 10 * (IF F - 1 > 0 THEN F - 1 ELSE 0) + 2 * C + 5 * R + 10 * K + 2 * O

\* C21: the complexity score of a parsed formula is min(100, 5F + 10 max(F-1,
\* 0) + 2C + 5R + 10K + 2O) and an integer from 0 to 100.
C21_ComplexityScore ==
    Len(parsed) = 1 =>
        /\ parsed[1].complexity_score =
              (IF ComplexityTerms(parsed[1]) < 100 THEN ComplexityTerms(parsed[1])
               ELSE 100)
        /\ parsed[1].complexity_score \in 0..100
\* C21 witness: a parsed formula whose terms add up to more than 100, so
\* that the cap decides the score.
C21_Witness ==
    /\ Len(parsed) = 1
    /\ ComplexityTerms(parsed[1]) > 100
    /\ parsed[1].complexity_score = 100

\* C22 (as claimed): can_vectorize is true when the type is ARITHMETIC or
\* STATISTICAL or a function of the vectorizable set is invoked, and false
\* for every formula of type LOOKUP.
C22_CanVectorize ==
    Len(parsed) = 1 =>
        /\ (\/ parsed[1].formula_type \in {ARITHMETIC, STATISTICAL}
            \/ \E i \in 1..Len(parsed[1].functions) :
                  parsed[1].functions[i] \in
                      {"SUM", "AVERAGE", "COUNT", "MAX", "MIN", "STDEV", "VAR"})
              => can_vectorize(parsed[1])
        /\ parsed[1].formula_type = LOOKUP => ~ can_vectorize(parsed[1])

\* C23 (as claimed): the strategy is pandas_method for a vectorizable
\* formula with range references, vectorized for one without, otherwise
\* pandas_method for type LOOKUP, otherwise custom for a score above 50,
\* otherwise iterative; and every formula of type LOOKUP gets pandas_method.
C23_Strategy ==
    Len(parsed) = 1 =>
        LET p == parsed[1]
            strategy == suggest_python_approach(p)
        IN /\ strategy \in {"vectorized", "pandas_method", "iterative", "custom"}
           /\ strategy =
                 (IF can_vectorize(p) /\ p.range_references # {} THEN "pandas_method"
                  ELSE IF can_vectorize(p) THEN "vectorized"
                  ELSE IF p.formula_type = LOOKUP THEN "pandas_method"
                  ELSE IF p.complexity_score > 50 THEN "custom"
                  ELSE "iterative")
           /\ p.formula_type = LOOKUP => strategy = "pandas_method"

\* The text "=SUM(A1:A10)".
SumOfRange ==
    <<EqTok, FnTok("SUM"), RefTok("", "A", TheRow), ColonTok, RefTok("", "A", 10),
      RParenTok>>

\* C24: a boundary token of a range is in cell_references of the parsed
\* formula only if the same reference is also written outside every range;
\* "=SUM(A1:A10)" parses to functions [SUM], no cell reference, the range
\* A1:A10, type STATISTICAL, score 10, vectorizable, strategy pandas_method.
C24_RangesNotCellReferences ==
    Len(parsed) = 1 =>
        LET f == parser_input
            boundaries == RangeStarts(f) \cup {j + 2 : j \in RangeStarts(f)}
        IN /\ \A b \in boundaries :
                 CellText(f[b]) \in parsed[1].cell_references
                    => \E k \in 1..Len(f) :
                          /\ f[k].kind = "ref"
                          /\ k \notin boundaries
                          /\ CellText(f[k]) = CellText(f[b])
           /\ f = SumOfRange =>
                 /\ parsed[1].functions = <<"SUM">>
                 /\ parsed[1].cell_references = {}
                 /\ parsed[1].range_references =
                       {<<CellText(RefTok("", "A", TheRow)), CellText(RefTok("", "A", 10))>>}
                 /\ parsed[1].formula_type = STATISTICAL
                 /\ parsed[1].complexity_score = 10
                 /\ can_vectorize(parsed[1])
                 /\ suggest_python_approach(parsed[1]) = "pandas_method"
\* C24 witness: "=SUM(A1:A10)" has been parsed.
C24_Witness ==
    /\ Len(parsed) = 1
    /\ parser_input = SumOfRange
    /\ parsed[1].range_references # {}

\* ------------------------------------------ properties of the built graph
\* C25: after a successful build, export_stats agrees with the graph and
\* its queries: total_cells counts the nodes, formula_cells the nodes with
\* a formula, input_cells and output_cells the two query results, max_level
\* is the number of buckets of the calculation order less one, the counts
\* of cells_per_level add up to formula_cells, and is_dag is true.
C25_StatsConsistent ==
    Succeeded =>
        LET stats == export_stats
        IN /\ stats.total_cells = Cardinality(DOMAIN nodes)
           /\ stats.total_cells = Cardinality(graph.nodes)
           /\ stats.formula_cells =
                 Cardinality({n \in DOMAIN nodes : nodes[n].formula # NoFormula})
           /\ stats.input_cells = Len(get_input_cells)
           /\ stats.output_cells = Len(get_output_cells)
           /\ stats.max_level = Len(get_calculation_order) - 1
           /\ SumOfSizes(DOMAIN stats.cells_per_level, stats.cells_per_level)
                 = stats.formula_cells
           /\ stats.is_dag
\* C25 witness: a finished build with a literal cell and formula cells on
\* two levels above it.
C25_Witness ==
    /\ Succeeded
    /\ export_stats.max_level = 2
    /\ export_stats.input_cells = 1
    /\ export_stats.formula_cells = 2

\* C26 (as claimed): when _calculate_levels is handed a graph with a cycle,
\* no exception leaves it, the condition is reported as an error and every
\* node keeps level 0.
C26_LevelingFallback ==
    (pc \in {"done", "raised"} /\ ~ is_directed_acyclic_graph(graph)) =>
        /\ pc = "done"
        /\ error # {}
        /\ \A k \in DOMAIN nodes : nodes[k].level = 0

\* The nodes a cell depends on, directly or through other nodes.
ExistingDependencies(h) ==
    (get_dependencies(h) \cap DOMAIN nodes) \cup get_transitive_dependencies(h)

\* C27: after a successful build every formula cell lies in exactly one
\* bucket of the calculation order, and for a formula cell of bucket i
\* (counted from 0) every node it depends on, directly or transitively,
\* lies in a bucket before i when it is a formula cell and has a level
\* below i when it is a literal.
C27_BucketsAreEvaluationOrder ==
    Succeeded =>
        LET order == get_calculation_order
        IN /\ \A h \in FormulaNodes :
                 Cardinality({i \in 1..Len(order) : h \in SeqRange(order[i])}) = 1
           /\ \A i \in 1..Len(order) : \A h \in SeqRange(order[i]) :
                 \A d \in ExistingDependencies(h) :
                     IF nodes[d].formula # NoFormula
                     THEN \E j \in 1..(i - 1) : d \in SeqRange(order[j])
                     ELSE nodes[d].level < i - 1
\* C27 witness: a finished build with three buckets whose last bucket
\* holds a cell that depends, only through another cell, on a formula cell
\* of the first.
C27_Witness ==
    /\ Succeeded
    /\ Len(get_calculation_order) = 3
    /\ \E h \in SeqRange(get_calculation_order[3]) :
          \E d \in SeqRange(get_calculation_order[1]) :
              /\ d \in get_transitive_dependencies(h)
              /\ d \notin get_dependencies(h)

\* C28 (as claimed): after a successful build every node of level N > 0
\* depends on a node of level N - 1, every level from 0 to the maximum is
\* the level of some node, and a graph with nodes has a node of level 0.
C28_NoLevelGaps ==
    Succeeded =>
        /\ \A n \in DOMAIN nodes :
              nodes[n].level > 0 =>
                  \E d \in nodes[n].dependencies \cap DOMAIN nodes :
                      nodes[d].level = nodes[n].level - 1
        /\ DOMAIN nodes # {} =>
              \A L \in 0..SetMax({nodes[n].level : n \in DOMAIN nodes}) :
                  \E n \in DOMAIN nodes : nodes[n].level = L

\* C29 (as claimed): a range with a sheet prefix, written in a formula of
\* another sheet, gives dependencies on both boundary cells of the range's
\* sheet, and none on the holder's sheet for the second boundary unless
\* another reference names that cell.
C29_QualifiedRangeBoundaries ==
    SecondPassDone =>
        \A h \in FormulaNodes :
            LET f == nodes[h].formula
            IN \A j \in {i \in RangeStarts(f) :
                            f[i].sheet # "" /\ StripQuotes(f[i].sheet) # h[1]} :
                  /\ <<StripQuotes(f[j].sheet), f[j].col, f[j].row>>
                        \in nodes[h].dependencies
                  /\ <<StripQuotes(f[j].sheet), f[j + 2].col, f[j + 2].row>>
                        \in nodes[h].dependencies
                  /\ <<h[1], f[j + 2].col, f[j + 2].row>> \in nodes[h].dependencies
                        => \E k \in OutsideRange(f, j) :
                              Denotes(f[k], h[1]) = <<h[1], f[j + 2].col, f[j + 2].row>>

\* C30: a successfully built graph with a formula cell has an output cell,
\* and every formula cell is an output cell or has one among its
\* transitive dependents.
C30_OutputCellsExist ==
    (Succeeded /\ FormulaNodes # {}) =>
        /\ get_output_cells # <<>>
        /\ \A h \in FormulaNodes :
              \/ h \in SeqRange(get_output_cells)
              \/ SeqRange(get_output_cells) \cap get_transitive_dependents(h) # {}
\* C30 witness: a finished build with a formula cell whose only output
\* cell is a dependent of one of its dependents.
C30_Witness ==
    /\ Succeeded
    /\ \E h \in FormulaNodes :
          /\ h \notin SeqRange(get_output_cells)
          /\ SeqRange(get_output_cells) \cap get_dependents(h) = {}
          /\ SeqRange(get_output_cells) \cap get_transitive_dependents(h) # {}
====
